---- MODULE Spec2Model ----
(***************************************************************************)
(* Model of python_files/unittestadapter/django_handler.py: the two        *)
(* Django runners, django_discovery_runner (child process) and             *)
(* django_execution_runner (in-process manage.main() under override_argv   *)
(* and suppress(SystemExit)).                                              *)
(*                                                                         *)
(* The host process is single threaded: one call is active at a time and   *)
(* pc is the statement it is about to execute.  Every statement of a try   *)
(* body either completes or raises one of the exception classes of        *)
(* StatementRaises (an OSError from a library call or a print, or a        *)
(* KeyboardInterrupt); the code of manage.py raises one of ModuleRaises.   *)
(* The except handlers themselves are taken to complete.  manage.py and    *)
(* manage.main() read sys.argv but do not assign it.                       *)
(***************************************************************************)
EXTENDS Integers, Sequences, FiniteSets, TLC

VARIABLES
    sys_argv,        \* sys.argv of the host process
    sys_path,        \* sys.path of the host process
    os_environ,      \* os.environ of the host process: name -> value
    pc,              \* next statement of the active call, "idle" between calls
    func,            \* the runner called last: "none", "discovery", "execution"
    manage_py_path,  \* parameter of the active call
    args,            \* parameter of the active call
    test_ids,        \* parameter of the active call (execution)
    env,             \* local env (lines 45, 86)
    command,         \* local command (line 52)
    spawned,         \* subprocess.run started a child in this call
    child_cmd,       \* argv the child was started with
    child_env,       \* environment the child was started with
    returncode,      \* subprocess_discovery.returncode
    loaded,          \* exec_module(manage_module) was entered in this call
    main_called,     \* manage_module.main() was entered in this call
    manage_argv,     \* local manage_argv (line 104)
    original_argv,   \* override_argv's saved original_argv (line 28)
    stdout,          \* lines this call wrote to sys.stdout
    stderr,          \* lines this call wrote to sys.stderr
    result,          \* how the last call ended: "running", "returned" or the
                     \* class of the exception that left it
    raised,          \* class of the exception raised inside the try body, or "none"
    raised_at,       \* pc of the statement that raised it
    exit_code,       \* code carried by a SystemExit raised by load or main
    entry,           \* sys.argv, sys.path, os.environ when the call was entered
    initial          \* sys.argv, sys.path, os.environ before the first call

vars == << sys_argv, sys_path, os_environ, pc, func, manage_py_path, args,
           test_ids, env, command, spawned, child_cmd, child_env, returncode,
           loaded, main_called, manage_argv, original_argv, stdout, stderr,
           result, raised, raised_at, exit_code, entry, initial >>

----------------------------------------------------------------------------
(* Bounds of the model *)

MaxTestIds == 2     \* longest test id list
MaxSysPath == 6     \* calls start only while sys.path has room to grow
MaxExit == 2        \* child exit codes and SystemExit codes: -MaxSignal..MaxExit
MaxSignal == 1

RECURSIVE SeqsUpTo(_, _)
SeqsUpTo(S, n) ==
    IF n = 0 THEN {<< >>}
    ELSE LET shorter == SeqsUpTo(S, n - 1)
         IN  shorter \cup {Append(s, x) : s \in {t \in shorter : Len(t) = n - 1}, x \in S}

\* passthrough argument lists: none, one, and two in either order
ArgLists == { << >>, << "--keepdb" >>, << "--keepdb", "-v2" >>, << "-v2", "--keepdb" >> }
TestIdTokens == {"app.tests.A", "app.tests.B"}
TestIdLists == SeqsUpTo(TestIdTokens, MaxTestIds)
ReturnCodes == (0 - MaxSignal)..MaxExit

----------------------------------------------------------------------------
(* The file system, the interpreter and the strings of the module *)

ExistingManagePy == "/proj/manage.py"
MissingManagePy == "/gone/manage.py"
ManagePyPaths == {ExistingManagePy, MissingManagePy}

\* pathlib.Path(p).exists()
PathExistsAlways(p) == TRUE
PathExists(p) == p = ExistingManagePy

\* pathlib.Path(p).parent
PathParent(p) ==
    CASE p = ExistingManagePy -> "/proj"
      [] p = MissingManagePy -> "/gone"

\* pathlib.Path(__file__).parent, as a path and as the text os.fspath gives
custom_test_runner_dir == "/ext/unittestadapter"
\* text is a sequence of pieces, so that concatenation is \o
custom_test_runner_dir_text == << custom_test_runner_dir >>
os_pathsep == << ":" >>
sys_executable == "/usr/bin/python"

DiscoveryTestRunnerFlag == "--testrunner=django_test_runner.CustomDiscoveryTestRunner"
ExecutionTestRunnerFlag == "--testrunner=django_test_runner.CustomExecutionTestRunner"

CommandLine == "Running Django tests with command:"
ChildStderr == "subprocess_discovery.stderr"
ChildStdout == "subprocess_discovery.stdout"
DiscoveryErrorMsg == "Django test discovery process exited with non-zero error code See stderr above for more details."
ProjectDirLine == "Django project directory:"
ManageArgvLine == "Django manage.py arguments:"
ExecutionErrorMsg == "Error during Django test execution:"

\* Exception classes a library statement of a try body can raise, and the
\* classes the code of manage.py can raise
StatementRaises == {"OSError", "KeyboardInterrupt"}
ModuleRaises == {"OSError", "ImportError", "KeyboardInterrupt", "SystemExit"}
\* issubclass(k, Exception); SystemExit and KeyboardInterrupt derive from BaseException only
DerivedFromException(k) == k \in {"OSError", "ImportError", "VSCodeUnittestError"}

NoEnv == [v \in {} |-> << >>]

\* The host processes the runners are called in: sys.argv and os.environ as
\* the process was started (PYTHONPATH unset, empty, or set)
HostProcesses ==
    { [argv |-> << "execution.py", "--udiscovery" >>,
       environ |-> [HOME |-> << "/home/u" >>]],
      [argv |-> << "discovery.py" >>,
       environ |-> [HOME |-> << "/home/u" >>, PYTHONPATH |-> << >>]],
      [argv |-> << "execution.py", "--udiscovery" >>,
       environ |-> [HOME |-> << "/home/u" >>, PYTHONPATH |-> << "/a", ":", "/b" >>]] }

\* sys.path once the module has been imported (lines 16-18)
InitSysPath == << "/ext/lib/python", "/usr/lib/python", custom_test_runner_dir >>

Snapshot == [argv |-> sys_argv, path |-> sys_path, environ |-> os_environ]

globals == << sys_argv, sys_path, os_environ >>
call == << func, manage_py_path, args, test_ids, entry, initial >>
dlocals == << env, command, spawned, child_cmd, child_env, returncode >>
elocals == << loaded, main_called, manage_argv, original_argv, exit_code >>
streams == << stdout, stderr >>

----------------------------------------------------------------------------
(* Pure pieces of the two functions *)

\* sys.path.insert(0, d)
SysPathInsertReplacing(path, d) == << d >>
SysPathInsert(path, d) == << d >> \o path

\* lines 45-49 and 86-90: env = os.environ.copy(), then PYTHONPATH is set
EnvWithPythonPathAppended(environ) ==
    [v \in DOMAIN environ \cup {"PYTHONPATH"} |->
        IF v = "PYTHONPATH"
        THEN IF "PYTHONPATH" \in DOMAIN environ
             THEN environ["PYTHONPATH"] \o os_pathsep \o custom_test_runner_dir_text
             ELSE custom_test_runner_dir_text
        ELSE environ[v]]
EnvWithPythonPath(environ) ==
    [v \in DOMAIN environ \cup {"PYTHONPATH"} |->
        IF v = "PYTHONPATH"
        THEN IF "PYTHONPATH" \in DOMAIN environ
             THEN custom_test_runner_dir_text \o os_pathsep \o environ["PYTHONPATH"]
             ELSE custom_test_runner_dir_text
        ELSE environ[v]]

\* lines 52-58
DiscoveryCommand(path, a) ==
    << sys_executable, path, "test", DiscoveryTestRunnerFlag >> \o a

\* line 70: returncode not in (0, 1)
ReturncodeNonZero(rc) == rc # 0
ReturncodeIsError(rc) == rc \notin {0, 1}

\* lines 73-74: the class of the exception that leaves django_discovery_runner
\* when k was raised in its try body
DiscoveryExceptNoWrap(k) == k
DiscoveryExcept(k) == IF DerivedFromException(k) THEN "VSCodeUnittestError" ELSE k

\* lines 104-110
ManageArgvIdsFirst(path, a, ids) ==
    << path, "test", ExecutionTestRunnerFlag >> \o ids \o a
ManageArgv(path, a, ids) ==
    << path, "test", ExecutionTestRunnerFlag >> \o a \o ids

\* lines 30-33: sys.argv after override_argv's finally clause
OverrideArgvExitKeeps(original, current) == current
OverrideArgvExit(original, current) == original

\* line 113, suppress(SystemExit).__exit__: what is still raised after it
SuppressOnlyCleanExit(k, code) == IF k = "SystemExit" /\ code = 0 THEN "ok" ELSE k
Suppress(k, code) == IF k = "SystemExit" THEN "ok" ELSE k

\* line 115: does "except Exception" catch k
ExecutionReraises(k) == FALSE
ExecutionCatchesAll(k) == TRUE
ExecutionCatches(k) == DerivedFromException(k)

----------------------------------------------------------------------------
(* The process after the import of the module *)

Init ==
    /\ \E h \in HostProcesses : sys_argv = h.argv /\ os_environ = h.environ
    /\ sys_path = InitSysPath
    /\ pc = "idle"
    /\ func = "none"
    /\ manage_py_path = ExistingManagePy
    /\ args = << >>
    /\ test_ids = << >>
    /\ env = NoEnv
    /\ command = << >>
    /\ spawned = FALSE
    /\ child_cmd = << >>
    /\ child_env = NoEnv
    /\ returncode = << >>
    /\ loaded = FALSE
    /\ main_called = FALSE
    /\ manage_argv = << >>
    /\ original_argv = << >>
    /\ stdout = << >>
    /\ stderr = << >>
    /\ result = "returned"
    /\ raised = "none"
    /\ raised_at = "none"
    /\ exit_code = << >>
    /\ entry = [argv |-> sys_argv, path |-> InitSysPath, environ |-> os_environ]
    /\ initial = [argv |-> sys_argv, path |-> InitSysPath, environ |-> os_environ]

\* A call is entered: parameters bound, locals fresh
Enter(f, p, a, ids) ==
    /\ pc = "idle"
    /\ Len(sys_path) + 2 <= MaxSysPath
    /\ func' = f
    /\ manage_py_path' = p
    /\ args' = a
    /\ test_ids' = ids
    /\ env' = NoEnv
    /\ command' = << >>
    /\ spawned' = FALSE
    /\ child_cmd' = << >>
    /\ child_env' = NoEnv
    /\ returncode' = << >>
    /\ loaded' = FALSE
    /\ main_called' = FALSE
    /\ manage_argv' = << >>
    /\ original_argv' = << >>
    /\ stdout' = << >>
    /\ stderr' = << >>
    /\ raised' = "none"
    /\ raised_at' = "none"
    /\ exit_code' = << >>
    /\ entry' = Snapshot
    /\ UNCHANGED << globals, initial >>

----------------------------------------------------------------------------
(* django_discovery_runner, lines 36-74 *)

\* lines 73-74: k was raised by the statement at pc
DiscoveryRaises(k) ==
    /\ raised' = k
    /\ raised_at' = pc
    /\ result' = DiscoveryExcept(k)
    /\ pc' = "idle"

\* lines 36-39
django_discovery_runner(p, a) ==
    /\ Enter("discovery", p, a, << >>)
    /\ IF PathExists(p)
       THEN result' = "running" /\ pc' = "d_syspath"
       ELSE result' = "VSCodeUnittestError" /\ pc' = "idle"

\* lines 43-44
DiscoverySysPath ==
    /\ pc = "d_syspath"
    /\ \E o \in {"ok"} \cup StatementRaises :
          IF o = "ok"
          THEN /\ sys_path' = SysPathInsert(sys_path, custom_test_runner_dir)
               /\ pc' = "d_env"
               /\ UNCHANGED << result, raised, raised_at >>
          ELSE DiscoveryRaises(o) /\ UNCHANGED sys_path
    /\ UNCHANGED << sys_argv, os_environ, call, dlocals, elocals, streams >>

\* lines 45-49
DiscoveryEnv ==
    /\ pc = "d_env"
    /\ \E o \in {"ok"} \cup StatementRaises :
          IF o = "ok"
          THEN /\ env' = EnvWithPythonPath(os_environ)
               /\ pc' = "d_command"
               /\ UNCHANGED << result, raised, raised_at >>
          ELSE DiscoveryRaises(o) /\ UNCHANGED env
    /\ UNCHANGED << globals, call, command, spawned, child_cmd, child_env,
                    returncode, elocals, streams >>

\* lines 52-59
DiscoveryBuildCommand ==
    /\ pc = "d_command"
    /\ \E o \in {"ok"} \cup StatementRaises :
          IF o = "ok"
          THEN /\ command' = DiscoveryCommand(manage_py_path, args)
               /\ stdout' = Append(stdout, CommandLine)
               /\ pc' = "d_run"
               /\ UNCHANGED << result, raised, raised_at >>
          ELSE DiscoveryRaises(o) /\ UNCHANGED << command, stdout >>
    /\ UNCHANGED << globals, call, env, spawned, child_cmd, child_env,
                    returncode, elocals, stderr >>

\* lines 61-66: subprocess.run(command, capture_output=True, text=True, env=env)
\* blocks until the child exits; when it raises, the child may or may not
\* have been started
DiscoveryRun ==
    /\ pc = "d_run"
    /\ \E o \in {"ok"} \cup StatementRaises, rc \in ReturnCodes, started \in BOOLEAN :
          IF o = "ok"
          THEN /\ spawned' = TRUE
               /\ child_cmd' = command
               /\ child_env' = env
               /\ returncode' = << rc >>
               /\ pc' = "d_stderr"
               /\ UNCHANGED << result, raised, raised_at >>
          ELSE /\ DiscoveryRaises(o)
               /\ spawned' = started
               /\ child_cmd' = IF started THEN command ELSE << >>
               /\ child_env' = IF started THEN env ELSE NoEnv
               /\ UNCHANGED returncode
    /\ UNCHANGED << globals, call, env, command, elocals, streams >>

\* line 67
DiscoveryForwardStderr ==
    /\ pc = "d_stderr"
    /\ \E o \in {"ok"} \cup StatementRaises :
          IF o = "ok"
          THEN /\ stderr' = Append(stderr, ChildStderr)
               /\ pc' = "d_stdout"
               /\ UNCHANGED << result, raised, raised_at >>
          ELSE DiscoveryRaises(o) /\ UNCHANGED stderr
    /\ UNCHANGED << globals, call, dlocals, elocals, stdout >>

\* line 68
DiscoveryForwardStdout ==
    /\ pc = "d_stdout"
    /\ \E o \in {"ok"} \cup StatementRaises :
          IF o = "ok"
          THEN /\ stdout' = Append(stdout, ChildStdout)
               /\ pc' = "d_returncode"
               /\ UNCHANGED << result, raised, raised_at >>
          ELSE DiscoveryRaises(o) /\ UNCHANGED stdout
    /\ UNCHANGED << globals, call, dlocals, elocals, stderr >>

\* lines 70-72, then the function returns
DiscoveryReturncode ==
    /\ pc = "d_returncode"
    /\ \E o \in {"ok"} \cup StatementRaises :
          IF o = "ok"
          THEN /\ stderr' = IF ReturncodeIsError(returncode[1])
                            THEN Append(stderr, DiscoveryErrorMsg)
                            ELSE stderr
               /\ result' = "returned"
               /\ pc' = "idle"
               /\ UNCHANGED << raised, raised_at >>
          ELSE /\ ReturncodeIsError(returncode[1]) \/ ~DerivedFromException(o)
               /\ DiscoveryRaises(o)
               /\ UNCHANGED stderr
    /\ UNCHANGED << globals, call, dlocals, elocals, stdout >>

----------------------------------------------------------------------------
(* django_execution_runner, lines 77-116 *)

\* lines 115-116: k reached the except clause from the statement at pc
ExecutionRaises(k) ==
    /\ raised_at' = pc
    /\ pc' = "idle"
    /\ IF ExecutionCatches(k)
       THEN stderr' = Append(stderr, ExecutionErrorMsg) /\ result' = "returned"
       ELSE stderr' = stderr /\ result' = k

\* lines 77-80
django_execution_runner(p, ids, a) ==
    /\ Enter("execution", p, a, ids)
    /\ IF PathExists(p)
       THEN result' = "running" /\ pc' = "e_syspath"
       ELSE result' = "VSCodeUnittestError" /\ pc' = "idle"

\* lines 84-85
ExecutionSysPath ==
    /\ pc = "e_syspath"
    /\ \E o \in {"ok"} \cup StatementRaises :
          IF o = "ok"
          THEN /\ sys_path' = SysPathInsert(sys_path, custom_test_runner_dir)
               /\ pc' = "e_env"
               /\ UNCHANGED << result, raised, raised_at, stderr >>
          ELSE ExecutionRaises(o) /\ raised' = o /\ UNCHANGED sys_path
    /\ UNCHANGED << sys_argv, os_environ, call, dlocals, elocals, stdout >>

\* lines 86-90
ExecutionEnv ==
    /\ pc = "e_env"
    /\ \E o \in {"ok"} \cup StatementRaises :
          IF o = "ok"
          THEN /\ env' = EnvWithPythonPath(os_environ)
               /\ pc' = "e_project"
               /\ UNCHANGED << result, raised, raised_at, stderr >>
          ELSE ExecutionRaises(o) /\ raised' = o /\ UNCHANGED env
    /\ UNCHANGED << globals, call, command, spawned, child_cmd, child_env,
                    returncode, elocals, stdout >>

\* lines 92-94
ExecutionProjectDir ==
    /\ pc = "e_project"
    /\ \E o \in {"ok"} \cup StatementRaises :
          IF o = "ok"
          THEN /\ sys_path' = SysPathInsert(sys_path, PathParent(manage_py_path))
               /\ stdout' = Append(stdout, ProjectDirLine)
               /\ pc' = "e_spec"
               /\ UNCHANGED << result, raised, raised_at, stderr >>
          ELSE ExecutionRaises(o) /\ raised' = o /\ UNCHANGED << sys_path, stdout >>
    /\ UNCHANGED << sys_argv, os_environ, call, dlocals, elocals >>

\* lines 96-100: spec_from_file_location gives a spec with a loader, or None
\* (line 100 then raises VSCodeUnittestError inside the try body), or raises
ExecutionSpec ==
    /\ pc = "e_spec"
    /\ \E o \in {"ok", "VSCodeUnittestError"} \cup StatementRaises :
          IF o = "ok"
          THEN /\ pc' = "e_module"
               /\ UNCHANGED << result, raised, raised_at, stderr >>
          ELSE ExecutionRaises(o) /\ raised' = o
    /\ UNCHANGED << globals, call, dlocals, elocals, stdout >>

\* lines 101-102: module_from_spec, then exec_module starts the body of manage.py
ExecutionExecModule ==
    /\ pc = "e_module"
    /\ \E o \in {"ok"} \cup StatementRaises :
          IF o = "ok"
          THEN /\ loaded' = TRUE
               /\ pc' = "e_loading"
               /\ UNCHANGED << result, raised, raised_at, stderr >>
          ELSE ExecutionRaises(o) /\ raised' = o /\ UNCHANGED loaded
    /\ UNCHANGED << globals, call, dlocals, main_called, manage_argv,
                    original_argv, exit_code, stdout >>

\* line 102: the body of manage.py finishes or raises
ExecutionModuleLoaded ==
    /\ pc = "e_loading"
    /\ \E o \in {"ok"} \cup ModuleRaises, code \in ReturnCodes :
          IF o = "ok"
          THEN /\ pc' = "e_argv"
               /\ UNCHANGED << result, raised, raised_at, stderr, exit_code >>
          ELSE /\ ExecutionRaises(o)
               /\ raised' = o
               /\ exit_code' = IF o = "SystemExit" THEN << code >> ELSE << >>
    /\ UNCHANGED << globals, call, dlocals, loaded, main_called, manage_argv,
                    original_argv, stdout >>

\* lines 104-111
ExecutionBuildArgv ==
    /\ pc = "e_argv"
    /\ \E o \in {"ok"} \cup StatementRaises :
          IF o = "ok"
          THEN /\ manage_argv' = ManageArgv(manage_py_path, args, test_ids)
               /\ stdout' = Append(stdout, ManageArgvLine)
               /\ pc' = "e_with"
               /\ UNCHANGED << result, raised, raised_at, stderr >>
          ELSE ExecutionRaises(o) /\ raised' = o /\ UNCHANGED << manage_argv, stdout >>
    /\ UNCHANGED << globals, call, dlocals, loaded, main_called, original_argv,
                    exit_code >>

\* lines 113-114 with lines 28-31: override_argv and suppress are entered and
\* manage_module.main() is called
override_argv_enter ==
    /\ pc = "e_with"
    /\ original_argv' = sys_argv
    /\ sys_argv' = manage_argv
    /\ main_called' = TRUE
    /\ pc' = "e_main"
    /\ UNCHANGED << sys_path, os_environ, call, dlocals, loaded, manage_argv,
                    exit_code, streams, result, raised, raised_at >>

\* line 114 and the way out of it: main() returns or raises, suppress.__exit__
\* (the inner manager) sees the exception first, override_argv's finally
\* clause (lines 32-33) runs next, and what is still raised reaches line 115
ExecutionMainDone ==
    /\ pc = "e_main"
    /\ \E o \in {"ok"} \cup ModuleRaises, code \in ReturnCodes :
          LET c == IF o = "SystemExit" THEN code ELSE 0
              k == Suppress(o, c)
          IN  /\ sys_argv' = OverrideArgvExit(original_argv, sys_argv)
              /\ raised' = IF o = "ok" THEN "none" ELSE o
              /\ exit_code' = IF o = "SystemExit" THEN << code >> ELSE << >>
              /\ IF k = "ok"
                 THEN /\ result' = "returned"
                      /\ pc' = "idle"
                      /\ raised_at' = IF o = "ok" THEN "none" ELSE pc
                      /\ UNCHANGED stderr
                 ELSE ExecutionRaises(k)
    /\ UNCHANGED << sys_path, os_environ, call, dlocals, loaded, main_called,
                    manage_argv, original_argv, stdout >>

----------------------------------------------------------------------------

Next ==
    \/ \E p \in ManagePyPaths, a \in ArgLists : django_discovery_runner(p, a)
    \/ DiscoverySysPath
    \/ DiscoveryEnv
    \/ DiscoveryBuildCommand
    \/ DiscoveryRun
    \/ DiscoveryForwardStderr
    \/ DiscoveryForwardStdout
    \/ DiscoveryReturncode
    \/ \E p \in ManagePyPaths, ids \in TestIdLists, a \in ArgLists :
          django_execution_runner(p, ids, a)
    \/ ExecutionSysPath
    \/ ExecutionEnv
    \/ ExecutionProjectDir
    \/ ExecutionSpec
    \/ ExecutionExecModule
    \/ ExecutionModuleLoaded
    \/ ExecutionBuildArgv
    \/ override_argv_enter
    \/ ExecutionMainDone

Spec == Init /\ [][Next]_vars

TypeOK ==
    /\ pc \in {"idle", "d_syspath", "d_env", "d_command", "d_run", "d_stderr",
               "d_stdout", "d_returncode", "e_syspath", "e_env", "e_project",
               "e_spec", "e_module", "e_loading", "e_argv", "e_with", "e_main"}
    /\ func \in {"none", "discovery", "execution"}
    /\ Len(sys_path) <= MaxSysPath

----------------------------------------------------------------------------
(* Properties *)

Range(s) == {s[i] : i \in 1..Len(s)}
IsSuffix(s, t) == Len(s) <= Len(t) /\ SubSeq(t, Len(t) - Len(s) + 1, Len(t)) = s
DiscoveryDone == pc = "idle" /\ func = "discovery"
ExecutionDone == pc = "idle" /\ func = "execution"

\* C1: a call of either runner with a manage.py path that does not exist ends
\* at once with VSCodeUnittestError: the call never gets past its first
\* statement, no child is spawned, manage.py is neither loaded nor run, nothing
\* is printed, and sys.path, sys.argv and os.environ are as at entry.
C1_MissingPathRaisesFirst ==
    (func # "none" /\ manage_py_path = MissingManagePy) =>
        /\ pc = "idle"
        /\ result = "VSCodeUnittestError"
        /\ raised = "none"
        /\ ~spawned /\ ~loaded /\ ~main_called
        /\ stdout = << >> /\ stderr = << >>
        /\ sys_path = entry.path
        /\ sys_argv = entry.argv
        /\ os_environ = entry.environ

\* an execution call with the missing path has ended, after earlier calls
\* that grew sys.path
C1_Witness ==
    /\ func = "execution"
    /\ manage_py_path = MissingManagePy
    /\ result = "VSCodeUnittestError"
    /\ Len(sys_path) > Len(InitSysPath)

\* C2: in django_execution_runner sys.argv differs from its value at entry
\* only while manage_module.main() is running; once main() is over, however it
\* ended, and after the function has finished, sys.argv is the value at entry.
C2_ArgvRestored ==
    /\ (func = "execution" /\ pc # "e_main") => sys_argv = entry.argv
    /\ pc = "e_main" => original_argv = entry.argv

\* main() was left by a BaseException that is neither caught nor suppressed
C2_Witness ==
    /\ ExecutionDone
    /\ main_called
    /\ raised = "KeyboardInterrupt"
    /\ raised_at = "e_main"
    /\ result = "KeyboardInterrupt"
    /\ manage_argv # entry.argv
    /\ sys_argv = entry.argv

\* C3: while manage_module.main() runs, sys.argv is the manage.py path, "test",
\* the execution test runner flag, then args in order, then test_ids in order.
C3_ArgvDuringMain ==
    pc = "e_main" =>
        /\ Len(sys_argv) = 3 + Len(args) + Len(test_ids)
        /\ sys_argv[1] = manage_py_path
        /\ sys_argv[2] = "test"
        /\ sys_argv[3] = "--testrunner=django_test_runner.CustomExecutionTestRunner"
        /\ \A i \in 1..Len(args) : sys_argv[3 + i] = args[i]
        /\ \A i \in 1..Len(test_ids) : sys_argv[3 + Len(args) + i] = test_ids[i]

C3_Witness ==
    /\ pc = "e_main"
    /\ Len(args) = 2 /\ args[1] # args[2]
    /\ Len(test_ids) = 2 /\ test_ids[1] # test_ids[2]

\* C4 as stated: whenever the child has exited, django_discovery_runner
\* returns without raising, and the error line is on stderr exactly when the
\* exit code is neither 0 nor 1.
C4_Original ==
    (DiscoveryDone /\ returncode # << >>) =>
        /\ result = "returned"
        /\ (DiscoveryErrorMsg \in Range(stderr)) <=> (returncode[1] \notin {0, 1})

\* C4 amended: once the child has exited, django_discovery_runner returns
\* without raising exactly when none of the statements after it (forwarding
\* stderr, forwarding stdout, writing the error line) raises, whatever the exit
\* code; the error line is on stderr exactly when the call returned and the
\* exit code is neither 0 nor 1; and the error line is only ever written after
\* the child's stderr and stdout have been forwarded.
C4_ReturncodeHandling ==
    /\ (DiscoveryDone /\ returncode # << >>) =>
          /\ (result = "returned") <=> (raised = "none")
          /\ (DiscoveryErrorMsg \in Range(stderr)) <=>
                (result = "returned" /\ returncode[1] \notin {0, 1})
    /\ func = "discovery" =>
          \A i \in 1..Len(stderr) :
              stderr[i] = DiscoveryErrorMsg =>
                  /\ \E j \in 1..(i - 1) : stderr[j] = ChildStderr
                  /\ ChildStdout \in Range(stdout)

\* the child exited with 1 (test failures) and the call returned silently
C4_Witness ==
    /\ DiscoveryDone
    /\ returncode = << 1 >>
    /\ result = "returned"
    /\ stderr = << ChildStderr >>

\* C5: an exception derived from Exception raised inside the try body of
\* django_discovery_runner leaves the function as VSCodeUnittestError, and no
\* other class derived from Exception leaves it.
C5_DiscoveryWraps ==
    (DiscoveryDone /\ manage_py_path = ExistingManagePy) =>
        /\ raised \in {"OSError", "ImportError", "VSCodeUnittestError"} =>
              result = "VSCodeUnittestError"
        /\ result \notin {"OSError", "ImportError"}

\* forwarding the child's stdout raised OSError
C5_Witness ==
    /\ DiscoveryDone
    /\ raised = "OSError"
    /\ raised_at = "d_stdout"
    /\ result = "VSCodeUnittestError"

C7_SystemExitSuppressed ==
    (ExecutionDone /\ raised = "SystemExit" /\ raised_at = "e_main") =>
        /\ result = "returned"
        /\ ExecutionErrorMsg \notin Range(stderr)

C7_Witness ==
    /\ ExecutionDone
    /\ raised = "SystemExit"
    /\ raised_at = "e_main"
    /\ exit_code = << 2 >>
    /\ result = "returned"

\* C8: the child of django_discovery_runner gets the parent's environment
\* with PYTHONPATH set to the helper directory, followed by the separator and
\* the parent's PYTHONPATH when the parent had one; the other variables are
\* passed as they are, and os.environ itself is as at entry.
C8_ChildEnvironment ==
    /\ func = "discovery" => os_environ = entry.environ
    /\ spawned =>
          /\ DOMAIN child_env = DOMAIN os_environ \cup {"PYTHONPATH"}
          /\ \A v \in DOMAIN os_environ \ {"PYTHONPATH"} : child_env[v] = os_environ[v]
          /\ "PYTHONPATH" \in DOMAIN os_environ =>
                child_env["PYTHONPATH"] =
                    << "/ext/unittestadapter", ":" >> \o os_environ["PYTHONPATH"]
          /\ "PYTHONPATH" \notin DOMAIN os_environ =>
                child_env["PYTHONPATH"] = << "/ext/unittestadapter" >>

C8_Witness ==
    /\ spawned
    /\ "PYTHONPATH" \in DOMAIN os_environ
    /\ os_environ["PYTHONPATH"] = << "/a", ":", "/b" >>
    /\ child_env["PYTHONPATH"] = << "/ext/unittestadapter", ":", "/a", ":", "/b" >>

\* C9 as stated: after any sequence of completed calls sys.argv, sys.path and
\* os.environ equal their values before the sequence.
C9_Original ==
    pc = "idle" =>
        /\ sys_argv = initial.argv
        /\ sys_path = initial.path
        /\ os_environ = initial.environ

\* C9 amended: after any sequence of completed calls sys.argv and os.environ
\* equal their values before the sequence; sys.path does not: it is the list
\* before the sequence with entries put in front of it.  A discovery call that
\* got past line 44 leaves the helper directory in front of the sys.path it
\* found, an execution call that got past line 93 leaves the project directory
\* and then the helper directory in front of it.
C9_GlobalState ==
    /\ pc = "idle" =>
          /\ sys_argv = initial.argv
          /\ os_environ = initial.environ
          /\ IsSuffix(initial.path, sys_path)
    /\ (DiscoveryDone /\ manage_py_path = ExistingManagePy /\ raised_at # "d_syspath") =>
          sys_path = << "/ext/unittestadapter" >> \o entry.path
    /\ (ExecutionDone /\ manage_py_path = ExistingManagePy
          /\ raised_at \notin {"e_syspath", "e_env", "e_project"}) =>
          sys_path = << "/proj", "/ext/unittestadapter" >> \o entry.path

\* a discovery call and then an execution call have returned
C9_Witness ==
    /\ ExecutionDone
    /\ result = "returned"
    /\ raised = "none"
    /\ sys_path = << "/proj", "/ext/unittestadapter", "/ext/unittestadapter" >> \o initial.path
    /\ sys_argv = initial.argv

\* C10: while the body of manage.py is being executed sys.argv is the
\* caller's and main() has not been entered; a SystemExit raised by the body
\* leaves django_execution_runner as SystemExit, without an error message;
\* SystemExit leaves the function in no other case, so never from main().
C10_LoadOutsideSuppress ==
    /\ pc = "e_loading" => (sys_argv = entry.argv /\ loaded /\ ~main_called)
    /\ (ExecutionDone /\ raised = "SystemExit" /\ raised_at = "e_loading") =>
          /\ result = "SystemExit"
          /\ ExecutionErrorMsg \notin Range(stderr)
          /\ ~main_called
    /\ (ExecutionDone /\ result = "SystemExit") => raised_at = "e_loading"

C10_Witness ==
    /\ ExecutionDone
    /\ raised = "SystemExit"
    /\ raised_at = "e_loading"
    /\ result = "SystemExit"
    /\ exit_code = << 1 >>
====
